---- MODULE Spec2Model ----
(***************************************************************************)
(* Model of backend/server.py of diet-log-tracker: the water ledger        *)
(* (add_water, remove_last_water_entry, get_water_log) over the            *)
(* db.water_logs collection, and the target computation of update_profile. *)
(*                                                                         *)
(* Conventions.                                                            *)
(*  - A Python Optional value is a sequence of length at most one:         *)
(*    None is <<>>, the value v is <<v>>.  The result of find_one is an    *)
(*    Optional document in the same way.                                   *)
(*  - A collection is the sequence of its documents in insertion order;    *)
(*    find_one and update_one act on the first document that matches.      *)
(*  - A calendar-day key "YYYY-MM-DD" is a day number in Days.             *)
(*  - uuid4() is a fresh value: the counter nextId.                        *)
(*  - Fields that no handler ever reads back (a document's own id,         *)
(*    created_at, an entry's time) are left out of the documents.          *)
(***************************************************************************)
EXTENDS Integers, Sequences, FiniteSets, TLC

VARIABLES
    users,        \* db.users: user id -> profile document
    water_logs,   \* db.water_logs: sequence of documents, insertion order
    food_logs,    \* db.food_logs: sequence of documents, insertion order
    weight_logs,  \* db.weight_logs: sequence of documents, insertion order
    nextId,       \* next value uuid4() hands out
    today,        \* datetime.now(timezone.utc), as a day number
    resp,         \* the response of the handler that completed last
    reqs          \* the in-flight requests of the interleaved specification

vars ==
    <<users, water_logs, food_logs, weight_logs, nextId, today, resp, reqs>>

----------------------------------------------------------------------------
(* Bounds and input sets *)

\* uuid4() values handed out in a behaviour of the sequential ledger
MaxAdds == 2

UserIds == {"u1", "u2"}
\* two consecutive calendar days
Days == {1, 2}
\* WaterLogAdd.amount_ml is declared int: any integer passes validation.
Amounts == {-300, 0, 500}
\* the optional date argument of the water handlers
DateArgs == {<<>>} \cup {<<d>> : d \in Days}

None == <<>>
Some(v) == <<v>>

RECURSIVE SumAmounts(_)
SumAmounts(es) ==
    IF es = <<>> THEN 0 ELSE es[1].amount_ml + SumAmounts(Tail(es))

MinOf(S) == CHOOSE x \in S : \A y \in S : x <= y
MaxOf(a, b) == IF a >= b THEN a ELSE b

----------------------------------------------------------------------------
(* db.users *)

\* the document register() inserts
RegisteredUser ==
    [age |-> None, gender |-> None, height_cm |-> None,
     current_weight |-> None, activity_level |-> Some("moderate"),
     weight_loss_rate |-> Some(10),
     calorie_target |-> Some(2000), protein_target |-> Some(150),
     carbs_target |-> Some(200), fat_target |-> Some(67),
     water_goal |-> Some(2000), bmr |-> None, tdee |-> None]

\* user.get(key, default)
Get(doc, key, default) == IF doc[key] = None THEN default ELSE doc[key][1]

----------------------------------------------------------------------------
(* PUT /profile: update_profile and calculate_bmr                          *)
(*                                                                         *)
(* The floats of the computation are exact decimals here: weights in kg    *)
(* and heights in cm are whole numbers, weight_loss_rate is in tenths      *)
(* (10 is the 1.0 of register), a BMR is carried in quarters of a kcal     *)
(* and a TDEE in 1/4000 kcal, so that 6.25 * height and the multipliers    *)
(* 1.2 .. 1.9 lose nothing.  ProfileUpdate's name, goal_weight, units and  *)
(* onboarding_completed are copied to the document and read by nothing;    *)
(* they are left out.                                                      *)

Ages == {0, 30}
Genders == {"male", "female"}
Heights == {165, 180}
Weights == {60, 80}
ActivityLevels ==
    {"sedentary", "light", "moderate", "active", "very_active", "athlete"}
LossRates == {5, 20, 100}
CalorieOverrides == {800}
ProteinOverrides == {100}

\* int(x) for x = n / d with d > 0: truncation toward zero
Trunc(n, d) == IF n >= 0 THEN n \div d ELSE -((-n) \div d)

\* calculate_bmr, in quarters of a kcal
calculate_bmr(gender, weight_kg, height_cm, age) ==
    IF gender = "male"
    THEN 40 * weight_kg + 25 * height_cm - 20 * age + 20
    ELSE 40 * weight_kg + 25 * height_cm - 20 * age - 644

\* activity_multipliers.get(level, 1.55), in thousandths; level is
\* merged.get("activity_level", "moderate") as an Optional
activity_multipliers(level) ==
    LET l == IF level = None THEN "moderate" ELSE level[1]
    IN  CASE l = "sedentary" -> 1200
          [] l = "light" -> 1375
          [] l = "moderate" -> 1550
          [] l = "active" -> 1725
          [] l = "very_active" -> 1900
          [] OTHER -> 1550

\* tdee = bmr * multiplier, in 1/4000 kcal
Tdee(bmr, level) == bmr * activity_multipliers(level)

\* deficit = weight_loss_rate * 500, in 1/4000 kcal (rate in tenths)
Deficit(weight_loss_rate) == weight_loss_rate * 200000

\* round(x) for x = n / d with d > 0: to nearest, a tie to the even side
RoundNearest(n, d) ==
    LET q == n \div d
        r == n - q * d
    IN  IF 2 * r < d THEN q
        ELSE IF 2 * r > d THEN q + 1
        ELSE IF q % 2 = 0 THEN q ELSE q + 1

\* faulty variant: the floor of 1200 forgotten
CalorieTarget_NoFloor(tdee, deficit) == Trunc(tdee - deficit, 4000)

\* faulty variant: round() in place of int()
CalorieTarget_Rounded(tdee, deficit) ==
    MaxOf(1200, RoundNearest(tdee - deficit, 4000))

\* calorie_target = max(1200, int(tdee - deficit))
CalorieTarget(tdee, deficit) == MaxOf(1200, Trunc(tdee - deficit, 4000))

\* int((calorie_target * 0.30) / 4) and its siblings
ProteinTarget(calorie_target) == Trunc(calorie_target * 3, 40)
CarbsTarget(calorie_target) == Trunc(calorie_target * 4, 40)

\* faulty variant: fat counted at 4 kcal per gram
FatTarget_FourPerGram(calorie_target) == Trunc(calorie_target * 3, 40)
FatTarget(calorie_target) == Trunc(calorie_target * 3, 90)

\* the fields of ProfileUpdate, all defaulting to None
EmptyUpdate ==
    [age |-> None, gender |-> None, height_cm |-> None,
     current_weight |-> None, activity_level |-> None,
     weight_loss_rate |-> None, calorie_target |-> None,
     protein_target |-> None, carbs_target |-> None, fat_target |-> None,
     water_goal |-> None]

\* the requests enumerated: one field set per request
OneField(f, S) == {[EmptyUpdate EXCEPT ![f] = Some(v)] : v \in S}
ProfileUpdates ==
    OneField("age", Ages) \cup OneField("gender", Genders)
    \cup OneField("height_cm", Heights)
    \cup OneField("current_weight", Weights)
    \cup OneField("activity_level", ActivityLevels)
    \cup OneField("weight_loss_rate", LossRates)
    \cup OneField("calorie_target", CalorieOverrides)
    \cup OneField("protein_target", ProteinOverrides)

\* merged = {**user, **update_data}, update_data being the non-None fields
Merged(user, update) ==
    [f \in DOMAIN user |->
        IF f \in DOMAIN update /\ update[f] # None THEN update[f]
        ELSE user[f]]

\* Python truth of merged.get(f): not None, not 0, not ""
TruthyNum(x) == x # None /\ x[1] # 0
TruthyStr(x) == x # None /\ x[1] # ""

\* all(merged.get(f) for f in ["age", "gender", "height_cm", "current_weight"])
HasBiometrics(merged) ==
    /\ TruthyNum(merged.age)
    /\ TruthyStr(merged.gender)
    /\ TruthyNum(merged.height_cm)
    /\ TruthyNum(merged.current_weight)

\* the targets the if-branch of update_profile puts into update_data
Recomputed(merged) ==
    LET bmr == calculate_bmr(merged.gender[1], merged.current_weight[1],
                             merged.height_cm[1], merged.age[1])
        tdee == Tdee(bmr, merged.activity_level)
        calorie_target ==
            CalorieTarget(tdee, Deficit(Get(merged, "weight_loss_rate", 10)))
    IN  [calorie_target |-> Some(calorie_target),
         protein_target |-> Some(ProteinTarget(calorie_target)),
         carbs_target |-> Some(CarbsTarget(calorie_target)),
         fat_target |-> Some(FatTarget(calorie_target)),
         bmr |-> Some(Trunc(bmr, 4)),
         tdee |-> Some(Trunc(tdee, 4000))]

\* faulty variant: bmr and tdee zeroed when a biometric is missing
UpdateData_ClearsWhenIncomplete(user, update) ==
    LET merged == Merged(user, update)
        passed == [f \in DOMAIN user |->
                      IF f \in DOMAIN update THEN update[f] ELSE None]
    IN  IF HasBiometrics(merged)
        THEN LET targets == Recomputed(merged)
             IN  [passed EXCEPT
                     !.calorie_target = targets.calorie_target,
                     !.protein_target = targets.protein_target,
                     !.carbs_target = targets.carbs_target,
                     !.fat_target = targets.fat_target,
                     !.bmr = targets.bmr,
                     !.tdee = targets.tdee]
        ELSE [passed EXCEPT !.bmr = Some(0), !.tdee = Some(0)]

\* update_data as handed to $set
UpdateData(user, update) ==
    LET merged == Merged(user, update)
        passed == [f \in DOMAIN user |->
                      IF f \in DOMAIN update THEN update[f] ELSE None]
    IN  IF HasBiometrics(merged)
        THEN LET targets == Recomputed(merged)
             IN  [passed EXCEPT
                     !.calorie_target = targets.calorie_target,
                     !.protein_target = targets.protein_target,
                     !.carbs_target = targets.carbs_target,
                     !.fat_target = targets.fat_target,
                     !.bmr = targets.bmr,
                     !.tdee = targets.tdee]
        ELSE passed

\* db.users.update_one({"id": ...}, {"$set": update_data})
SetFields(user, update_data) ==
    [f \in DOMAIN user |->
        IF update_data[f] # None THEN update_data[f] ELSE user[f]]

update_profile(u, update) ==
    LET updated == SetFields(users[u], UpdateData(users[u], update))
    IN  /\ users' = [users EXCEPT ![u] = updated]
        /\ resp' = [op |-> "update_profile", user |-> u, status |-> 200,
                    updated |-> updated]
        /\ UNCHANGED <<water_logs, nextId, today, reqs,
                       food_logs, weight_logs>>

----------------------------------------------------------------------------
(* db.water_logs *)

Matching(coll, u, d) ==
    {i \in 1..Len(coll) : coll[i].user_id = u /\ coll[i].date = d}

\* db.water_logs.find_one({"user_id": u, "date": d})
find_one(coll, u, d) ==
    IF Matching(coll, u, d) = {} THEN None
    ELSE Some(coll[MinOf(Matching(coll, u, d))])

\* db.water_logs.update_one({"user_id": u, "date": d},
\*                          {"$set": {"total_ml": t, "entries": es}})
update_one(coll, u, d, t, es) ==
    IF Matching(coll, u, d) = {} THEN coll
    ELSE [coll EXCEPT ![MinOf(Matching(coll, u, d))] =
              [@ EXCEPT !.total_ml = t, !.entries = es]]

\* db.water_logs.insert_one(doc)
insert_one(coll, doc) == Append(coll, doc)

\* entry.date or datetime.now(timezone.utc).strftime("%Y-%m-%d")
DateOrToday(dateArg) == IF dateArg = None THEN today ELSE dateArg[1]

NewEntry(id, a) == [id |-> id, amount_ml |-> a]

\* add_water, existing branch: the total and the entries it writes
AddNewAmount(existing, a) == existing.total_ml + a

\* faulty variant: the new entry put first
AddNewEntries_Prepend(existing, id, a) ==
    <<NewEntry(id, a)>> \o existing.entries
AddNewEntries(existing, id, a) == Append(existing.entries, NewEntry(id, a))

\* add_water, else branch: the document it inserts
AddLogDoc(u, d, id, a) ==
    [user_id |-> u, date |-> d, total_ml |-> a,
     entries |-> <<NewEntry(id, a)>>]

\* add_water after its find_one: the collection it leaves
AddWaterStore(coll, existing, u, d, id, a) ==
    IF existing # None
    THEN update_one(coll, u, d, AddNewAmount(existing[1], a),
                    AddNewEntries(existing[1], id, a))
    ELSE insert_one(coll, AddLogDoc(u, d, id, a))

\* add_water: the response
AddWaterResp(existing, u, d, id, a) ==
    [op |-> "add_water", user |-> u, status |-> 200, date |-> d,
     total_ml |-> IF existing # None THEN AddNewAmount(existing[1], a)
                  ELSE a,
     goal_ml |-> Get(users[u], "water_goal", 2000),
     entries |-> IF existing # None THEN AddNewEntries(existing[1], id, a)
                 ELSE <<NewEntry(id, a)>>]

\* remove_last_water_entry: the 404 guard
NothingToRemove(log) == log = None \/ log[1].entries = <<>>

\* faulty variant: entries[1:] in place of entries[:-1]
RemoveRemaining_DropFirst(log) == Tail(log.entries)
RemoveRemaining(log) == SubSeq(log.entries, 1, Len(log.entries) - 1)
RemoveRemoved(log) == log.entries[Len(log.entries)]
RemoveNewTotal(log) ==
    MaxOf(0, log.total_ml - RemoveRemoved(log).amount_ml)

RemoveLastStore(coll, log, u, d) ==
    update_one(coll, u, d, RemoveNewTotal(log[1]), RemoveRemaining(log[1]))

RemoveLastResp(log, u, d) ==
    IF NothingToRemove(log)
    THEN [op |-> "remove_last_water_entry", user |-> u, status |-> 404,
          date |-> d]
    ELSE [op |-> "remove_last_water_entry", user |-> u, status |-> 200,
          date |-> d, total_ml |-> RemoveNewTotal(log[1]),
          goal_ml |-> Get(users[u], "water_goal", 2000),
          removed_entry |-> RemoveRemoved(log[1]),
          entries |-> RemoveRemaining(log[1])]

GetWaterLogResp(log, u, d) ==
    [op |-> "get_water_log", user |-> u, status |-> 200, date |-> d,
     total_ml |-> IF log = None THEN 0 ELSE log[1].total_ml,
     goal_ml |-> Get(users[u], "water_goal", 2000),
     entries |-> IF log = None THEN <<>> ELSE log[1].entries]

----------------------------------------------------------------------------
(* The handlers, each run to completion *)

NoReqs == <<>>

Init ==
    /\ users = [u \in UserIds |-> RegisteredUser]
    /\ water_logs = <<>>
    /\ food_logs = <<>>
    /\ weight_logs = <<>>
    /\ nextId = 1
    /\ today = 1
    /\ resp = [op |-> "none", status |-> 0]
    /\ reqs = NoReqs

\* POST /water-logs
add_water(u, dateArg, a) ==
    LET d == DateOrToday(dateArg)
        existing == find_one(water_logs, u, d)
    IN  /\ nextId <= MaxAdds
        /\ water_logs' = AddWaterStore(water_logs, existing, u, d, nextId, a)
        /\ resp' = AddWaterResp(existing, u, d, nextId, a)
        /\ nextId' = nextId + 1
        /\ UNCHANGED <<users, today, reqs, food_logs, weight_logs>>

\* faulty variant: the guard tests only "not log", so entries[-1] raises on an empty
\* list and the request ends as a server error
remove_last_water_entry_NoEmptyCheck(u, dateArg) ==
    LET d == DateOrToday(dateArg)
        log == find_one(water_logs, u, d)
    IN  /\ resp' = IF log # None /\ log[1].entries = <<>>
                   THEN [op |-> "remove_last_water_entry", user |-> u,
                         status |-> 500, date |-> d]
                   ELSE RemoveLastResp(log, u, d)
        /\ water_logs' = IF NothingToRemove(log) THEN water_logs
                         ELSE RemoveLastStore(water_logs, log, u, d)
        /\ UNCHANGED <<users, nextId, today, reqs, food_logs, weight_logs>>

\* DELETE /water-logs/last
remove_last_water_entry(u, dateArg) ==
    LET d == DateOrToday(dateArg)
        log == find_one(water_logs, u, d)
    IN  /\ resp' = RemoveLastResp(log, u, d)
        /\ water_logs' = IF NothingToRemove(log) THEN water_logs
                         ELSE RemoveLastStore(water_logs, log, u, d)
        /\ UNCHANGED <<users, nextId, today, reqs, food_logs, weight_logs>>

\* faulty variant: a read of an absent day stores the zero-valued default
get_water_log_Upsert(u, dateArg) ==
    LET d == DateOrToday(dateArg)
        log == find_one(water_logs, u, d)
    IN  /\ resp' = GetWaterLogResp(log, u, d)
        /\ water_logs' =
               IF log = None
               THEN insert_one(water_logs,
                               [user_id |-> u, date |-> d, total_ml |-> 0,
                                entries |-> <<>>])
               ELSE water_logs
        /\ UNCHANGED <<users, nextId, today, reqs, food_logs, weight_logs>>

\* GET /water-logs
get_water_log(u, dateArg) ==
    LET d == DateOrToday(dateArg)
        log == find_one(water_logs, u, d)
    IN  /\ resp' = GetWaterLogResp(log, u, d)
        /\ UNCHANGED <<users, water_logs, nextId, today, reqs,
                       food_logs, weight_logs>>

\* the UTC calendar day changes
NextDay ==
    /\ today + 1 \in Days
    /\ today' = today + 1
    /\ UNCHANGED <<users, water_logs, nextId, resp, reqs,
                   food_logs, weight_logs>>

AddWaterStep == \E u \in UserIds, dateArg \in DateArgs, a \in Amounts :
                    add_water(u, dateArg, a)
RemoveLastStep == \E u \in UserIds, dateArg \in DateArgs :
                      remove_last_water_entry(u, dateArg)
GetWaterLogStep == \E u \in UserIds, dateArg \in DateArgs :
                       get_water_log(u, dateArg)

Next == AddWaterStep \/ RemoveLastStep \/ GetWaterLogStep \/ NextDay

Spec == Init /\ [][Next]_vars

----------------------------------------------------------------------------
(* The water handlers as concurrent requests: each await on the store is   *)
(* one step, so a request's find_one and its write can be separated by     *)
(* steps of the other request.                                             *)

ReqIds == {"r1", "r2"}

Idle == [pc |-> "idle"]

\* a ledger as one sequential add_water leaves it
SeqAdd(coll, u, d, id, a) ==
    AddWaterStore(coll, find_one(coll, u, d), u, d, id, a)

InitLedgers ==
    {<<>>} \cup {SeqAdd(<<>>, u, d, 1, a) :
                    u \in UserIds, d \in Days, a \in Amounts}

InitConc ==
    /\ users = [u \in UserIds |-> RegisteredUser]
    /\ water_logs \in InitLedgers
    /\ food_logs = <<>>
    /\ weight_logs = <<>>
    /\ nextId = Len(water_logs) + 1
    /\ today = 1
    /\ resp = [op |-> "none", status |-> 0]
    /\ reqs = [r \in ReqIds |-> Idle]

\* add_water up to the return of find_one (lines 390-395)
AddWaterFind(r, u, dateArg, a) ==
    /\ reqs[r].pc = "idle"
    /\ reqs' = [reqs EXCEPT ![r] =
                   [pc |-> "add_found", op |-> "add_water", user |-> u,
                    date |-> DateOrToday(dateArg), amount_ml |-> a,
                    existing |-> find_one(water_logs, u,
                                          DateOrToday(dateArg))]]
    /\ UNCHANGED <<users, water_logs, nextId, today, resp,
                   food_logs, weight_logs>>

\* add_water from the branch on existing to the return (lines 397-416)
AddWaterWrite(r) ==
    /\ reqs[r].pc = "add_found"
    /\ LET q == reqs[r]
           rsp == AddWaterResp(q.existing, q.user, q.date, nextId,
                               q.amount_ml)
       IN  /\ water_logs' = AddWaterStore(water_logs, q.existing, q.user,
                                          q.date, nextId, q.amount_ml)
           /\ resp' = rsp
           /\ reqs' = [reqs EXCEPT ![r] =
                          [pc |-> "done", op |-> "add_water",
                           user |-> q.user, date |-> q.date,
                           amount_ml |-> q.amount_ml,
                           existing |-> q.existing,
                           entry_id |-> nextId, resp |-> rsp]]
    /\ nextId' = nextId + 1
    /\ UNCHANGED <<users, today, food_logs, weight_logs>>

\* remove_last_water_entry up to the 404 guard (lines 421-430)
RemoveLastFind(r, u, dateArg) ==
    /\ reqs[r].pc = "idle"
    /\ LET d == DateOrToday(dateArg)
           log == find_one(water_logs, u, d)
       IN  IF NothingToRemove(log)
           THEN /\ resp' = RemoveLastResp(log, u, d)
                /\ reqs' = [reqs EXCEPT ![r] =
                               [pc |-> "done",
                                op |-> "remove_last_water_entry",
                                user |-> u, date |-> d, log |-> log,
                                resp |-> RemoveLastResp(log, u, d)]]
           ELSE /\ resp' = resp
                /\ reqs' = [reqs EXCEPT ![r] =
                               [pc |-> "remove_found",
                                op |-> "remove_last_water_entry",
                                user |-> u, date |-> d, log |-> log]]
    /\ UNCHANGED <<users, water_logs, nextId, today, food_logs, weight_logs>>

\* remove_last_water_entry from the update_one to the return (lines 432-449)
RemoveLastWrite(r) ==
    /\ reqs[r].pc = "remove_found"
    /\ LET q == reqs[r]
           rsp == RemoveLastResp(q.log, q.user, q.date)
       IN  /\ water_logs' = RemoveLastStore(water_logs, q.log, q.user,
                                            q.date)
           /\ resp' = rsp
           /\ reqs' = [reqs EXCEPT ![r] =
                          [pc |-> "done", op |-> "remove_last_water_entry",
                           user |-> q.user, date |-> q.date, log |-> q.log,
                           resp |-> rsp]]
    /\ UNCHANGED <<users, nextId, today, food_logs, weight_logs>>

AddWaterFindStep ==
    \E r \in ReqIds, u \in UserIds, dateArg \in DateArgs, a \in Amounts :
        AddWaterFind(r, u, dateArg, a)
AddWaterWriteStep == \E r \in ReqIds : AddWaterWrite(r)
RemoveLastFindStep ==
    \E r \in ReqIds, u \in UserIds, dateArg \in DateArgs :
        RemoveLastFind(r, u, dateArg)
RemoveLastWriteStep == \E r \in ReqIds : RemoveLastWrite(r)

NextConc ==
    \/ AddWaterFindStep
    \/ AddWaterWriteStep
    \/ RemoveLastFindStep
    \/ RemoveLastWriteStep

SpecConc == InitConc /\ [][NextConc]_vars

----------------------------------------------------------------------------
(* Water ledger: claims *)

DocsOf(coll, u, d) == {coll[i] : i \in Matching(coll, u, d)}
EntryIds(es) == {es[i].id : i \in 1..Len(es)}

\* C1: in every state of the sequential ledger, each stored record has
\* total_ml equal to the sum of its entries' amount_ml, and total_ml >= 0.
C1_TotalIsSumAndNonNegative ==
    \A i \in 1..Len(water_logs) :
        /\ water_logs[i].total_ml = SumAmounts(water_logs[i].entries)
        /\ water_logs[i].total_ml >= 0

\* C2: when two add_water requests for the same existing (user, day) ledger
\* have both completed, the ledger holds both new entries and its total is
\* the total before the two requests plus both amounts.
C2_NoLostUpdate ==
    \A r1, r2 \in ReqIds :
        ( /\ r1 # r2
          /\ reqs[r1].pc = "done" /\ reqs[r2].pc = "done"
          /\ reqs[r1].op = "add_water" /\ reqs[r2].op = "add_water"
          /\ reqs[r1].user = reqs[r2].user /\ reqs[r1].date = reqs[r2].date
          /\ reqs[r1].existing # None /\ reqs[r2].existing # None
          /\ Len(reqs[r1].existing[1].entries)
                 <= Len(reqs[r2].existing[1].entries) )
        => LET now == find_one(water_logs, reqs[r1].user, reqs[r1].date)[1]
               before == reqs[r1].existing[1]
           IN  /\ {reqs[r1].entry_id, reqs[r2].entry_id}
                      \subseteq EntryIds(now.entries)
               /\ now.total_ml = before.total_ml + reqs[r1].amount_ml
                                     + reqs[r2].amount_ml

\* C3: at most one water-log record exists per (user, day).
C3_OneRecordPerUserDay ==
    \A u \in UserIds, d \in Days :
        Cardinality(Matching(water_logs, u, d)) <= 1

\* what an add_water step for (u, d) with amount a must have done
C4_AddPost(u, d, a) ==
    IF Matching(water_logs, u, d) = {}
    THEN /\ Len(water_logs') = Len(water_logs) + 1
         /\ \A i \in 1..Len(water_logs) : water_logs'[i] = water_logs[i]
         /\ \E doc \in DocsOf(water_logs', u, d) :
                /\ DocsOf(water_logs', u, d) = {doc}
                /\ doc.total_ml = a
                /\ Len(doc.entries) = 1
                /\ doc.entries[1].amount_ml = a
    ELSE /\ Len(water_logs') = Len(water_logs)
         /\ \A i \in 1..Len(water_logs) :
                IF i \in Matching(water_logs, u, d)
                THEN /\ water_logs'[i].user_id = u
                     /\ water_logs'[i].date = d
                     /\ Len(water_logs'[i].entries)
                            = Len(water_logs[i].entries) + 1
                     /\ SubSeq(water_logs'[i].entries, 1,
                               Len(water_logs[i].entries))
                            = water_logs[i].entries
                     /\ water_logs'[i].entries[Len(water_logs'[i].entries)]
                            .amount_ml = a
                     /\ water_logs'[i].total_ml = water_logs[i].total_ml + a
                ELSE water_logs'[i] = water_logs[i]

\* C4: add_water on an absent ledger creates it with total = amount and
\* exactly one entry of that amount; on a present ledger it appends exactly
\* one entry of that amount at the end, leaves the earlier entries as they
\* were, and increases the total by exactly the amount.
\* (The step is found by its response, which names the user and the day.)
C4_AddCreatesOrAppends ==
    [][resp'.op = "add_water"
       => \A a \in Amounts :
              add_water(resp'.user, Some(resp'.date), a)
              => C4_AddPost(resp'.user, resp'.date, a)
      ]_vars

\* C4 witness: an add_water has just appended to a ledger that was present.
C4_Witness ==
    /\ resp.op = "add_water"
    /\ Len(resp.entries) >= 2
    /\ \E doc \in DocsOf(water_logs, resp.user, resp.date) :
           doc.entries = resp.entries /\ doc.total_ml = resp.total_ml

\* what a remove_last_water_entry step on a non-empty ledger must have done
C5_UndoPost(u, d) ==
    \A i \in Matching(water_logs, u, d) :
        LET old == water_logs[i]
            new == water_logs'[i]
            n == Len(old.entries)
        IN  /\ Len(water_logs') = Len(water_logs)
            /\ \A j \in 1..Len(water_logs) :
                   j # i => water_logs'[j] = water_logs[j]
            /\ Len(new.entries) = n - 1
            /\ \A k \in 1..(n - 1) : new.entries[k] = old.entries[k]
            /\ \A k \in 1..n : old.entries[k].id <= old.entries[n].id
            /\ resp'.status = 200
            /\ resp'.removed_entry = old.entries[n]
            /\ new.total_ml =
                   IF old.total_ml - old.entries[n].amount_ml >= 0
                   THEN old.total_ml - old.entries[n].amount_ml ELSE 0
            /\ resp'.total_ml = new.total_ml
            /\ resp'.entries = new.entries

\* C5: remove_last_water_entry on a ledger with at least one entry removes
\* the entry appended most recently (the one with the latest id), keeps the
\* other entries unchanged and in order, and sets the total to
\* max(0, total - removed amount).
C5_UndoRemovesLast ==
    [][( /\ resp'.op = "remove_last_water_entry"
         /\ remove_last_water_entry(resp'.user, Some(resp'.date))
         /\ \E doc \in DocsOf(water_logs, resp'.user, resp'.date) :
                doc.entries # <<>> )
       => C5_UndoPost(resp'.user, resp'.date)
      ]_vars

\* C5 witness: an undo has just removed one of several entries.
C5_Witness ==
    /\ resp.op = "remove_last_water_entry"
    /\ resp.status = 200
    /\ Len(resp.entries) >= 1
    /\ \E doc \in DocsOf(water_logs, resp.user, resp.date) :
           doc.entries = resp.entries

\* C6: remove_last_water_entry answers 404 when the ledger is absent or its
\* entries list is empty, and then leaves the store unchanged.
C6_UndoNotFound ==
    [][( /\ resp'.op = "remove_last_water_entry"
         /\ remove_last_water_entry(resp'.user, Some(resp'.date))
         /\ \A doc \in DocsOf(water_logs, resp'.user, resp'.date) :
                doc.entries = <<>> )
       => /\ resp'.status = 404
          /\ water_logs' = water_logs
      ]_vars

\* C6 witness: an undo was refused on a ledger that exists with no entries.
C6_Witness ==
    /\ resp.op = "remove_last_water_entry"
    /\ resp.status = 404
    /\ \E doc \in DocsOf(water_logs, resp.user, resp.date) :
           doc.entries = <<>>

\* C7: a non-positive amount never enters a ledger: every stored entry has
\* amount_ml > 0.
C7_OnlyPositiveAmountsStored ==
    \A i \in 1..Len(water_logs) :
        \A k \in 1..Len(water_logs[i].entries) :
            water_logs[i].entries[k].amount_ml > 0

\* C8: get_water_log on an absent ledger answers 200 with total 0 and no
\* entries, and a read never changes the water_logs collection.
C8_ReadIsPure ==
    [][( /\ resp'.op = "get_water_log"
         /\ get_water_log(resp'.user, Some(resp'.date)) )
       => /\ water_logs' = water_logs
          /\ resp'.status = 200
          /\ Matching(water_logs, resp'.user, resp'.date) = {}
                 => /\ resp'.total_ml = 0
                    /\ resp'.entries = <<>>
                    /\ Matching(water_logs', resp'.user, resp'.date) = {}
      ]_vars

\* C8 witness: a read has just answered for a day with no ledger while
\* another ledger exists.
C8_Witness ==
    /\ resp.op = "get_water_log"
    /\ resp.total_ml = 0
    /\ resp.entries = <<>>
    /\ Matching(water_logs, resp.user, resp.date) = {}
    /\ water_logs # <<>>

----------------------------------------------------------------------------
(* Profile updates of one registered user *)

InitProfile ==
    /\ users = [u \in {"u1"} |-> RegisteredUser]
    /\ water_logs = <<>>
    /\ food_logs = <<>>
    /\ weight_logs = <<>>
    /\ nextId = 1
    /\ today = 1
    /\ resp = [op |-> "none", status |-> 0]
    /\ reqs = NoReqs

UpdateProfileStep ==
    \E u \in DOMAIN users, update \in ProfileUpdates :
        update_profile(u, update)

NextProfile == UpdateProfileStep

SpecProfile == InitProfile /\ [][NextProfile]_vars

----------------------------------------------------------------------------
(* Target computation: claims *)

\* the Mifflin-St Jeor value of the claim, in quarters of a kcal:
\* 10 W + 6.25 H - 5 A, + 5 for "male", - 161 for any other gender
C10_Bmr(profile) ==
    4 * 10 * profile.current_weight[1] + 25 * profile.height_cm[1]
    - 4 * 5 * profile.age[1]
    + (IF profile.gender[1] = "male" THEN 4 * 5 ELSE -(4 * 161))

\* the multiplier table of the claim, in thousandths
C10_Multiplier(profile) ==
    IF profile.activity_level = <<"sedentary">> THEN 1200
    ELSE IF profile.activity_level = <<"light">> THEN 1375
    ELSE IF profile.activity_level = <<"active">> THEN 1725
    ELSE IF profile.activity_level = <<"very_active">> THEN 1900
    ELSE 1550

\* TDEE - weight_loss_rate * 500 of the claim, in 1/4000 kcal
C10_Raw(profile) ==
    C10_Bmr(profile) * C10_Multiplier(profile)
    - profile.weight_loss_rate[1] * 50 * 4000

\* the profile is complete (age, gender, height_cm and current_weight all
\* set, none of them 0 or ""): the update that stored it took the branch
\* that recomputes the targets
Complete(profile) ==
    /\ profile.age # <<>> /\ profile.age # <<0>>
    /\ profile.gender # <<>> /\ profile.gender # <<"">>
    /\ profile.height_cm # <<>> /\ profile.height_cm # <<0>>
    /\ profile.current_weight # <<>> /\ profile.current_weight # <<0>>

\* the last handler was an update_profile that recomputed the targets of
\* the document it stored and returned
JustRecomputed ==
    /\ resp.op = "update_profile"
    /\ Complete(resp.updated)

\* C9: whenever a profile update recomputes the targets, the stored
\* calorie_target is at least 1200.
C9_CalorieFloor ==
    JustRecomputed
    => /\ users[resp.user] = resp.updated
       /\ users[resp.user].calorie_target[1] >= 1200

\* C9 witness: a recomputation with a loss rate of 10 per week, where
\* TDEE - deficit is negative and the floor decides.
C9_Witness ==
    /\ JustRecomputed
    /\ users[resp.user].weight_loss_rate = <<100>>
    /\ C10_Raw(users[resp.user]) < 0
    /\ users[resp.user].calorie_target = <<1200>>

\* C10 as stated: the recomputed calorie_target is
\* max(1200, round(TDEE - weight_loss_rate * 500)), rounded to nearest.
C10_RoundedTarget ==
    JustRecomputed
    => users[resp.user].calorie_target[1]
           = MaxOf(1200, RoundNearest(C10_Raw(resp.updated), 4000))

\* C10 amended: the recomputed calorie_target is
\* max(1200, int(TDEE - weight_loss_rate * 500)), the fraction dropped
\* (truncation toward zero), with BMR and multiplier as the claim gives them.
C10_TruncatedTarget ==
    JustRecomputed
    => LET raw == C10_Raw(resp.updated)
           whole == IF raw >= 0 THEN raw \div 4000 ELSE -((-raw) \div 4000)
       IN  users[resp.user].calorie_target[1]
               = (IF whole >= 1200 THEN whole ELSE 1200)

\* C10 witness: male, 60 kg, 165 cm, 30 years, "moderate", rate 1.0:
\* BMR 1486.25, TDEE 2303.6875, TDEE - deficit = 1803.6875, stored as 1803
\* where rounding would give 1804.
C10_Witness ==
    /\ JustRecomputed
    /\ users[resp.user].gender = <<"male">>
    /\ users[resp.user].current_weight = <<60>>
    /\ users[resp.user].height_cm = <<165>>
    /\ users[resp.user].age = <<30>>
    /\ users[resp.user].activity_level = <<"moderate">>
    /\ users[resp.user].weight_loss_rate = <<10>>
    /\ C10_Raw(users[resp.user]) = 1803 * 4000 + 2750
    /\ users[resp.user].calorie_target = <<1803>>


\* ct - (4 * protein + 4 * carbs + 9 * fat) of a profile document
MacroDrift(profile) ==
    profile.calorie_target[1]
    - (4 * profile.protein_target[1] + 4 * profile.carbs_target[1]
       + 9 * profile.fat_target[1])

Abs(n) == IF n >= 0 THEN n ELSE -n

\* C11, as stated: for every calorie_target >= 1200 the three macro targets
\* computed from it satisfy |4 * protein + 4 * carbs + 9 * fat - ct| <= 3.
\* Violated: the three truncations lose up to 16 kcal together.
C11_DriftAtMostThree ==
    JustRecomputed => Abs(MacroDrift(resp.updated)) <= 3

\* C11, amended: for every calorie_target >= 1200 the three macro targets
\* computed from it are the truncations of 0.30 ct / 4, 0.40 ct / 4 and
\* 0.30 ct / 9, and 4 * protein + 4 * carbs + 9 * fat falls short of ct by
\* at least 0 and at most 16 kcal.
C11_DriftAtMostSixteen ==
    JustRecomputed
    => LET p == resp.updated
           ct == p.calorie_target[1]
       IN  /\ ct >= 1200
           /\ p.protein_target[1] = (3 * ct) \div 40
           /\ p.carbs_target[1] = ct \div 10
           /\ p.fat_target[1] = ct \div 30
           /\ MacroDrift(p) >= 0
           /\ MacroDrift(p) <= 16

\* a recomputation whose macros fall 16 kcal short of the calorie target
C11_Witness ==
    /\ JustRecomputed
    /\ MacroDrift(resp.updated) = 16

Derived ==
    {"bmr", "tdee", "calorie_target", "protein_target", "carbs_target",
     "fat_target"}

\* a biometric is missing (None) in the profile document
Missing(profile) ==
    \/ profile.age = None
    \/ profile.gender = None
    \/ profile.height_cm = None
    \/ profile.current_weight = None

\* C12, as stated: a profile update after which any of age, gender, height or
\* current weight is still missing leaves bmr, tdee, calorie_target,
\* protein_target, carbs_target and fat_target exactly as before, whatever
\* other fields the update carries.  Violated: a target the update carries
\* is stored.
C12_DerivedUntouched ==
    [][resp'.op = "update_profile" /\ Missing(users'[resp'.user])
       => \A d \in Derived :
              users'[resp'.user][d] = users[resp'.user][d]
      ]_vars

\* C12, amended: a profile update after which any of age, gender, height or
\* current weight is still missing leaves bmr and tdee exactly as before,
\* and leaves each of calorie_target, protein_target, carbs_target and
\* fat_target as before unless the update itself carries a value for that
\* field, which is then stored as given.
C12_DerivedOnlyAsCarried ==
    [][resp'.op = "update_profile" /\ Missing(users'[resp'.user])
       => LET u == resp'.user
          IN  \A d \in Derived :
                  users'[u][d] # users[u][d]
                  => \E update \in ProfileUpdates :
                         /\ d \in DOMAIN update
                         /\ update[d] # None
                         /\ users'[u][d] = update[d]
                         /\ update_profile(u, update)
      ]_vars

\* an update carrying a calorie target has completed on a profile with a
\* biometric missing, and the target stored is the one carried
C12_Witness ==
    /\ resp.op = "update_profile"
    /\ Missing(resp.updated)
    /\ resp.updated.calorie_target = Some(800)
    /\ resp.updated.protein_target = RegisteredUser.protein_target

----------------------------------------------------------------------------
(* db.food_logs and db.weight_logs                                         *)
(*                                                                         *)
(* A timestamp (logged_at, an ISO string in the code) is the pair          *)
(* <<day, time>>: strings of that format compare as these pairs do and     *)
(* logged_at[:10] is the day.  The time of datetime.now() within a day is  *)
(* the ordinal of the request, which is nextId.  A macro value is carried  *)
(* in tenths and a quantity in hundredths; a weight is in whole kg, as in  *)
(* the profile.  food_name, fiber, serving, note and created_at are copied *)
(* to the document and read by nothing; they are left out.                 *)

\* uuid4() values handed out to food and weight logs in a behaviour
MaxLogs == 2

\* Motor's to_list(100)
ToListLength == 100
\* for _ in range(365)
StreakRange == 365
\* .limit(30).to_list(30)
WeightLimit == 30
\* for i in range(7), week_start = today - timedelta(days=6)
WeekLength == 7

\* datetime.now(timezone.utc).isoformat()
Now == <<today, nextId>>

\* comparison of two ISO timestamps
Before(a, b) == a[1] < b[1] \/ (a[1] = b[1] /\ a[2] < b[2])

\* round(value * quantity, 1), in tenths
Round1(value, quantity) == RoundNearest(value * quantity, 100)

\* entry.logged_at or datetime.now(timezone.utc).isoformat()
LoggedAt(arg, now) == IF arg = None THEN now ELSE arg[1]

\* log_doc of create_food_log
FoodLogDoc(u, id, now, entry) ==
    LET logged_at == LoggedAt(entry.logged_at, now)
    IN  [id |-> id, user_id |-> u,
         calories |-> Round1(entry.calories, entry.quantity),
         protein |-> Round1(entry.protein, entry.quantity),
         carbs |-> Round1(entry.carbs, entry.quantity),
         fat |-> Round1(entry.fat, entry.quantity),
         quantity |-> entry.quantity,
         meal_type |-> entry.meal_type,
         logged_at |-> logged_at,
         date |-> logged_at[1]]

\* log_doc of create_weight_log
WeightLogDoc(u, id, now, entry) ==
    LET logged_at == LoggedAt(entry.logged_at, now)
    IN  [id |-> id, user_id |-> u, weight |-> entry.weight,
         logged_at |-> logged_at, date |-> logged_at[1]]

\* faulty variant: the query without its user_id
find_AnyUser(coll, u, d) == SelectSeq(coll, LAMBDA doc : doc.date = d)

\* find({"user_id": u, "date": d}), in natural (insertion) order
find(coll, u, d) ==
    SelectSeq(coll, LAMBDA doc : doc.user_id = u /\ doc.date = d)

\* find({"user_id": u}), in natural (insertion) order
find_user(coll, u) == SelectSeq(coll, LAMBDA doc : doc.user_id = u)

\* documents in the order given by rank: rank[i] is the place of docs[i]
Arranged(docs, rank) ==
    [p \in 1..Len(docs) |-> docs[CHOOSE i \in 1..Len(docs) : rank[i] = p]]

\* .sort("logged_at", 1): a document comes after those with an earlier
\* timestamp; documents of one timestamp keep their natural order
sort_ascending(docs) ==
    LET n == Len(docs)
        rank == SubSeq([i \in 1..n |->
                    1 + Cardinality({j \in 1..n :
                            \/ Before(docs[j].logged_at, docs[i].logged_at)
                            \/ /\ docs[j].logged_at = docs[i].logged_at
                               /\ j < i})], 1, n)
    IN  Arranged(docs, rank)

\* .sort("logged_at", -1): a document comes after those with a later
\* timestamp; documents of one timestamp keep their natural order
sort_descending(docs) ==
    LET n == Len(docs)
        rank == SubSeq([i \in 1..n |->
                    1 + Cardinality({j \in 1..n :
                            \/ Before(docs[i].logged_at, docs[j].logged_at)
                            \/ /\ docs[j].logged_at = docs[i].logged_at
                               /\ j < i})], 1, n)
    IN  Arranged(docs, rank)

\* .to_list(length) and .limit(length)
to_list(docs, length) ==
    SubSeq(docs, 1, IF Len(docs) < length THEN Len(docs) ELSE length)

\* sum(f[field] for f in docs[lo..hi]), by halves
RECURSIVE SumRange(_, _, _, _)
SumRange(docs, field, lo, hi) ==
    IF lo > hi THEN 0
    ELSE IF lo = hi THEN docs[lo][field]
    ELSE SumRange(docs, field, lo, (lo + hi) \div 2)
         + SumRange(docs, field, (lo + hi) \div 2 + 1, hi)

\* sum(f[field] for f in docs)
SumField(docs, field) == SumRange(docs, field, 1, Len(docs))

\* the documents delete_one({"id": log_id, "user_id": u}) can pick
DeleteMatching(coll, log_id, u) ==
    {i \in 1..Len(coll) : coll[i].id = log_id /\ coll[i].user_id = u}

\* faulty variant: the owner left out of the filter
delete_one_AnyOwner(coll, log_id, u) ==
    LET M == {i \in 1..Len(coll) : coll[i].id = log_id}
    IN  IF M = {} THEN coll
        ELSE SubSeq(coll, 1, MinOf(M) - 1)
             \o SubSeq(coll, MinOf(M) + 1, Len(coll))

\* delete_one({"id": log_id, "user_id": u}): the first match goes
delete_one(coll, log_id, u) ==
    LET M == DeleteMatching(coll, log_id, u)
    IN  IF M = {} THEN coll
        ELSE SubSeq(coll, 1, MinOf(M) - 1)
             \o SubSeq(coll, MinOf(M) + 1, Len(coll))

\* POST /food-logs
create_food_log(u, entry) ==
    LET log_doc == FoodLogDoc(u, nextId, Now, entry)
    IN  /\ nextId <= MaxLogs
        /\ food_logs' = insert_one(food_logs, log_doc)
        /\ nextId' = nextId + 1
        /\ resp' = [op |-> "create_food_log", user |-> u, status |-> 200,
                    log |-> log_doc]
        /\ UNCHANGED <<users, water_logs, weight_logs, today, reqs>>

\* the logs GET /food-logs and GET /dashboard fetch for a day
DayLogs(u, d) ==
    to_list(sort_ascending(find(food_logs, u, d)), ToListLength)

\* GET /food-logs
get_food_logs(u, dateArg) ==
    LET d == DateOrToday(dateArg)
    IN  /\ resp' = [op |-> "get_food_logs", user |-> u, status |-> 200,
                    date |-> d, logs |-> DayLogs(u, d)]
        /\ UNCHANGED <<users, water_logs, food_logs, weight_logs, nextId,
                       today, reqs>>

\* DELETE /food-logs/{log_id}
delete_food_log(u, log_id) ==
    LET remaining == delete_one(food_logs, log_id, u)
        deleted_count == Len(food_logs) - Len(remaining)
    IN  /\ food_logs' = remaining
        /\ resp' = [op |-> "delete_food_log", user |-> u,
                    status |-> IF deleted_count = 0 THEN 404 ELSE 200]
        /\ UNCHANGED <<users, water_logs, weight_logs, nextId, today, reqs>>

\* faulty variant: current_weight follows the entry with the latest
\* logged_at instead of the entry of this call
create_weight_log_LatestTimestamp(u, entry) ==
    LET log_doc == WeightLogDoc(u, nextId, Now, entry)
        stored == insert_one(weight_logs, log_doc)
        latest == sort_descending(find_user(stored, u))[1]
    IN  /\ nextId <= MaxLogs
        /\ weight_logs' = stored
        /\ users' = [users EXCEPT ![u].current_weight = Some(latest.weight)]
        /\ nextId' = nextId + 1
        /\ resp' = [op |-> "create_weight_log", user |-> u, status |-> 200,
                    log |-> log_doc]
        /\ UNCHANGED <<water_logs, food_logs, today, reqs>>

\* faulty variant: the targets recomputed from the new weight, as PUT
\* /profile would
create_weight_log_Recomputes(u, entry) ==
    LET log_doc == WeightLogDoc(u, nextId, Now, entry)
        update == [EmptyUpdate EXCEPT !.current_weight = Some(entry.weight)]
    IN  /\ nextId <= MaxLogs
        /\ weight_logs' = insert_one(weight_logs, log_doc)
        /\ users' = [users EXCEPT ![u] =
                        SetFields(users[u], UpdateData(users[u], update))]
        /\ nextId' = nextId + 1
        /\ resp' = [op |-> "create_weight_log", user |-> u, status |-> 200,
                    log |-> log_doc]
        /\ UNCHANGED <<water_logs, food_logs, today, reqs>>

\* POST /weight-logs: the insert, then the $set of current_weight
create_weight_log(u, entry) ==
    LET log_doc == WeightLogDoc(u, nextId, Now, entry)
    IN  /\ nextId <= MaxLogs
        /\ weight_logs' = insert_one(weight_logs, log_doc)
        /\ users' = [users EXCEPT ![u].current_weight = Some(entry.weight)]
        /\ nextId' = nextId + 1
        /\ resp' = [op |-> "create_weight_log", user |-> u, status |-> 200,
                    log |-> log_doc]
        /\ UNCHANGED <<water_logs, food_logs, today, reqs>>

\* DELETE /weight-logs/{log_id}
delete_weight_log(u, log_id) ==
    LET remaining == delete_one(weight_logs, log_id, u)
        deleted_count == Len(weight_logs) - Len(remaining)
    IN  /\ weight_logs' = remaining
        /\ resp' = [op |-> "delete_weight_log", user |-> u,
                    status |-> IF deleted_count = 0 THEN 404 ELSE 200]
        /\ UNCHANGED <<users, water_logs, food_logs, nextId, today, reqs>>

\* the dates d with count_documents({"user_id": u, "date": d}) > 0
LoggedDates(u) ==
    {food_logs[i].date :
        i \in {j \in 1..Len(food_logs) : food_logs[j].user_id = u}}

\* faulty variant: every day of the range with an entry counted, gaps
\* skipped
calculate_streak_SkipGaps(u) ==
    Cardinality({d \in (today - StreakRange + 1)..today :
                    d \in LoggedDates(u)})

\* the loop of calculate_streak leaves it with the count of its iterations
\* that found an entry: every day from today back had one, and the loop
\* ended on the first day without or after range(365) was used up
calculate_streak(u) ==
    LET dates == LoggedDates(u)
    IN  CHOOSE streak \in 0..StreakRange :
            /\ \A i \in 0..(streak - 1) : today - i \in dates
            /\ streak = StreakRange \/ today - streak \notin dates

\* [f for f in food_logs if f["meal_type"] == meal]
MealBucket(logs, meal) == SelectSeq(logs, LAMBDA f : f.meal_type = meal)

\* faulty variant: the totals taken over the four buckets only
DashboardTotal_Bucketed(logs, field) ==
    SumField(MealBucket(logs, "breakfast"), field)
    + SumField(MealBucket(logs, "lunch"), field)
    + SumField(MealBucket(logs, "dinner"), field)
    + SumField(MealBucket(logs, "snack"), field)

\* round(sum(f[field] for f in food_logs), 1): a sum of tenths is in tenths
DashboardTotal(logs, field) == SumField(logs, field)

\* the body GET /dashboard answers with
DashboardResp(u, d) ==
    LET logs == DayLogs(u, d)
        water_log == find_one(water_logs, u, d)
    IN  [op |-> "get_dashboard", user |-> u, status |-> 200, date |-> d,
         calories |-> [consumed |-> DashboardTotal(logs, "calories"),
                       target |-> Get(users[u], "calorie_target", 2000)],
         protein |-> [consumed |-> DashboardTotal(logs, "protein"),
                      target |-> Get(users[u], "protein_target", 150)],
         carbs |-> [consumed |-> DashboardTotal(logs, "carbs"),
                    target |-> Get(users[u], "carbs_target", 200)],
         fat |-> [consumed |-> DashboardTotal(logs, "fat"),
                  target |-> Get(users[u], "fat_target", 67)],
         water |-> [consumed_ml |-> IF water_log = None THEN 0
                                    ELSE water_log[1].total_ml,
                    goal_ml |-> Get(users[u], "water_goal", 2000)],
         food_logs |-> logs,
         streak |-> calculate_streak(u),
         meals |-> [breakfast |-> MealBucket(logs, "breakfast"),
                    lunch |-> MealBucket(logs, "lunch"),
                    dinner |-> MealBucket(logs, "dinner"),
                    snack |-> MealBucket(logs, "snack")]]

\* faulty variant: the first read of a day leaves an empty water record
get_dashboard_Upsert(u, dateArg) ==
    LET d == DateOrToday(dateArg)
    IN  /\ resp' = DashboardResp(u, d)
        /\ water_logs' =
               IF find_one(water_logs, u, d) = None
               THEN insert_one(water_logs,
                               [user_id |-> u, date |-> d, total_ml |-> 0,
                                entries |-> <<>>])
               ELSE water_logs
        /\ UNCHANGED <<users, food_logs, weight_logs, nextId, today, reqs>>

\* GET /dashboard
get_dashboard(u, dateArg) ==
    /\ resp' = DashboardResp(u, DateOrToday(dateArg))
    /\ UNCHANGED <<users, water_logs, food_logs, weight_logs, nextId, today,
                   reqs>>

\* day_cals of get_weekly_stats: no sort, the first 100 in natural order
DayCalories(u, d) ==
    SumField(to_list(find(food_logs, u, d), ToListLength), "calories")

\* day_cals > 0 and day_cals <= user.get("calorie_target", 2000)
OnTrack(u, day_cals) ==
    day_cals > 0 /\ day_cals <= 10 * Get(users[u], "calorie_target", 2000)

\* faulty variant: the entries taken in their natural order, unsorted
WeightChange_Natural(u) ==
    LET logs == to_list(find_user(weight_logs, u), WeightLimit)
    IN  IF Len(logs) >= 2 THEN logs[1].weight - logs[Len(logs)].weight
        ELSE 0

\* weight_change of get_weekly_stats; a difference of whole kg is left as
\* it is by round(x, 1)
WeightChange(u) ==
    LET logs == to_list(sort_descending(find_user(weight_logs, u)),
                        WeightLimit)
    IN  IF Len(logs) >= 2 THEN logs[1].weight - logs[Len(logs)].weight
        ELSE 0

\* the body GET /stats/weekly answers with
WeeklyResp(u) ==
    LET week_start == today - (WeekLength - 1)
        daily_stats ==
            [i \in 1..WeekLength |->
                LET d == week_start + (i - 1)
                    water == find_one(water_logs, u, d)
                IN  [date |-> d, calories |-> DayCalories(u, d),
                     water_ml |-> IF water = None THEN 0
                                  ELSE water[1].total_ml]]
        total_cals == SumField(daily_stats, "calories")
    IN  [op |-> "get_weekly_stats", user |-> u, status |-> 200,
         daily_stats |-> daily_stats,
         avg_daily_calories |-> RoundNearest(total_cals, WeekLength),
         days_on_track |->
             Cardinality({i \in 1..WeekLength :
                             OnTrack(u, daily_stats[i].calories)}),
         weight_change |-> WeightChange(u),
         total_calories |-> total_cals]

\* GET /stats/weekly
get_weekly_stats(u) ==
    /\ resp' = WeeklyResp(u)
    /\ UNCHANGED <<users, water_logs, food_logs, weight_logs, nextId, today,
                   reqs>>

----------------------------------------------------------------------------
(* The food and weight log handlers and the two aggregate reads, each run  *)
(* to completion, on a store that starts empty                             *)

\* FoodLogCreate: per-unit macros of one food (100.0 kcal, 3.6 g protein,
\* 17.5 g carbs, 0.5 g fat), a quantity of 0.33 or 2 and a meal type that
\* may be none of the four; logged now, or ahead with the midnight of day 2
\* as logged_at and the default meal type
Quantities == {33, 200}
MealTypes == {"breakfast", "brunch"}
Food(q, m, t) ==
    [calories |-> 1000, protein |-> 36, carbs |-> 175, fat |-> 5,
     quantity |-> q, meal_type |-> m, logged_at |-> t]
FoodEntries ==
    {Food(q, m, None) : q \in Quantities, m \in MealTypes}
    \cup {Food(200, "snack", Some(<<2, 0>>))}
\* WeightLogCreate
WeightEntries == {[weight |-> w, logged_at |-> None] : w \in Weights}
\* the log ids a delete is tried with
LogIds == 1..MaxLogs

\* the store is empty but for a water record u1 may have for day 1
InitLogs ==
    /\ users = [u \in UserIds |-> RegisteredUser]
    /\ water_logs \in {<<>>, <<AddLogDoc("u1", 1, 0, 500)>>}
    /\ food_logs = <<>>
    /\ weight_logs = <<>>
    /\ nextId = 1
    /\ today = 1
    /\ resp = [op |-> "none", status |-> 0]
    /\ reqs = NoReqs

CreateFoodLogStep ==
    \E u \in UserIds, entry \in FoodEntries : create_food_log(u, entry)
GetFoodLogsStep ==
    \E u \in UserIds, dateArg \in DateArgs : get_food_logs(u, dateArg)
DeleteFoodLogStep ==
    \E u \in UserIds, log_id \in LogIds : delete_food_log(u, log_id)
CreateWeightLogStep ==
    \E u \in UserIds, entry \in WeightEntries : create_weight_log(u, entry)
DeleteWeightLogStep ==
    \E u \in UserIds, log_id \in LogIds : delete_weight_log(u, log_id)
GetDashboardStep ==
    \E u \in UserIds, dateArg \in DateArgs : get_dashboard(u, dateArg)
GetWeeklyStatsStep == \E u \in UserIds : get_weekly_stats(u)

NextLogs ==
    \/ CreateFoodLogStep
    \/ GetFoodLogsStep
    \/ DeleteFoodLogStep
    \/ CreateWeightLogStep
    \/ DeleteWeightLogStep
    \/ GetDashboardStep
    \/ GetWeeklyStatsStep

SpecLogs == InitLogs /\ [][NextLogs]_vars

----------------------------------------------------------------------------
(* The same handlers on a store with a history: the logs one user's        *)
(* earlier requests left, one request per log.  The requests of a history  *)
(* have the ordinals below 1, so the ids and the clock times of its logs   *)
(* are 0, -1, -2, ... counted back from the latest, and its days end on    *)
(* day 1.                                                                  *)

HistoryUser == "u1"

\* the food every request of a history logs: 20.0 kcal, 0.4 g protein,
\* 4.1 g carbs, 0.1 g fat, quantity 1
HistoryEntry ==
    [calories |-> 200, protein |-> 4, carbs |-> 41, fat |-> 1,
     quantity |-> 100, meal_type |-> "snack", logged_at |-> None]

\* the weight the i-th request of a weight history logs
HistoryWeight(i) == IF i % 2 = 0 THEN 80 ELSE 60

\* n food logs, all of day 1
SameDayHistory(n) ==
    [i \in 1..n |->
        FoodLogDoc(HistoryUser, i - n, <<1, i - n>>, HistoryEntry)]

\* one food log on each of the k days that end with day 1
DailyHistory(k) ==
    [i \in 1..k |->
        FoodLogDoc(HistoryUser, i - k, <<1 + i - k, i - k>>, HistoryEntry)]

\* one weight log on each of the n days that end with day 1
WeightHistory(n) ==
    [i \in 1..n |->
        WeightLogDoc(HistoryUser, i - n, <<1 + i - n, i - n>>,
                     [weight |-> HistoryWeight(i), logged_at |-> None])]

\* a history as long as a limit of the reads: 100 food logs on day 1, a
\* food log on each of 365 days, or nothing
FoodHistories ==
    {<<>>, SameDayHistory(ToListLength), DailyHistory(StreakRange)}

InitHistory ==
    /\ users = [u \in UserIds |-> RegisteredUser]
    /\ water_logs = <<>>
    /\ food_logs \in FoodHistories
    /\ weight_logs = <<>>
    /\ nextId = 1
    /\ today = 1
    /\ resp = [op |-> "none", status |-> 0]
    /\ reqs = NoReqs

\* the requests on top of a history: the food of the history, logged now or
\* with yesterday's midnight as logged_at
HistoryFoodEntries ==
    {HistoryEntry, [HistoryEntry EXCEPT !.logged_at = Some(<<0, 0>>)]}
\* the latest log of the history and the first log on top of it
HistoryLogIds == {0, 1}

HistoryCreateFoodLogStep ==
    \E entry \in HistoryFoodEntries : create_food_log(HistoryUser, entry)
HistoryGetFoodLogsStep ==
    \E dateArg \in DateArgs : get_food_logs(HistoryUser, dateArg)
HistoryDeleteFoodLogStep ==
    \E log_id \in HistoryLogIds : delete_food_log(HistoryUser, log_id)
HistoryGetDashboardStep ==
    \E dateArg \in DateArgs : get_dashboard(HistoryUser, dateArg)
HistoryGetWeeklyStatsStep == get_weekly_stats(HistoryUser)

NextHistory ==
    \/ HistoryCreateFoodLogStep
    \/ HistoryGetFoodLogsStep
    \/ HistoryDeleteFoodLogStep
    \/ HistoryGetDashboardStep
    \/ HistoryGetWeeklyStatsStep
    \/ NextDay

SpecHistory == InitHistory /\ [][NextHistory]_vars

----------------------------------------------------------------------------
(* The weight log handlers and the weekly read on a store with a weight    *)
(* history of 30 logs, or none                                             *)

WeightHistories == {<<>>, WeightHistory(WeightLimit)}

InitWeights ==
    /\ weight_logs \in WeightHistories
    /\ users =
           [u \in UserIds |->
               IF u = HistoryUser /\ weight_logs # <<>>
               THEN [RegisteredUser EXCEPT
                        !.current_weight =
                            Some(weight_logs[Len(weight_logs)].weight)]
               ELSE RegisteredUser]
    /\ water_logs = <<>>
    /\ food_logs = <<>>
    /\ nextId = 1
    /\ today = 1
    /\ resp = [op |-> "none", status |-> 0]
    /\ reqs = NoReqs

\* a weight logged now, or with a logged_at older than every log of the
\* history
OldDay == 1 - 2 * WeightLimit
HistoryWeightEntries ==
    {[weight |-> 60, logged_at |-> None],
     [weight |-> 80, logged_at |-> None],
     [weight |-> 80, logged_at |-> Some(<<OldDay, 0>>)]}

WeightsCreateStep ==
    \E u \in UserIds, entry \in HistoryWeightEntries :
        create_weight_log(u, entry)
WeightsDeleteStep ==
    \E u \in UserIds, log_id \in HistoryLogIds : delete_weight_log(u, log_id)
WeightsGetWeeklyStatsStep == \E u \in UserIds : get_weekly_stats(u)

NextWeights ==
    \/ WeightsCreateStep
    \/ WeightsDeleteStep
    \/ WeightsGetWeeklyStatsStep

SpecWeights == InitWeights /\ [][NextWeights]_vars

----------------------------------------------------------------------------
(* The two aggregate reads on a store whose calls may raise PyMongoError   *)

\* the repository calls awaited by GET /dashboard, get_current_user's first
DashboardCalls ==
    {"users.find_one", "food_logs.find", "water_logs.find_one",
     "food_logs.count_documents"}
\* the repository calls awaited by GET /stats/weekly
WeeklyCalls ==
    {"users.find_one", "food_logs.find", "water_logs.find_one",
     "weight_logs.find"}
\* mongodb_exception_handler: the answer to a request whose handler let a
\* PyMongoError out
mongodb_exception_handler(op, u) ==
    [op |-> op, user |-> u, status |-> 503,
     detail |-> "Database temporarily unavailable"]

\* faulty variant: a failed water lookup taken for an absent water log
DashboardOutcome_WaterDefaulted(u, d, raised) ==
    IF raised = "none" THEN DashboardResp(u, d)
    ELSE IF raised = "water_logs.find_one"
    THEN [DashboardResp(u, d) EXCEPT !.water.consumed_ml = 0]
    ELSE mongodb_exception_handler("get_dashboard", u)
\* what GET /dashboard answers when the call named by raised raises: no
\* await of the handler is inside a try, so the exception leaves it
DashboardOutcome(u, d, raised) ==
    IF raised = "none" THEN DashboardResp(u, d)
    ELSE mongodb_exception_handler("get_dashboard", u)

\* what GET /stats/weekly answers when the call named by raised raises
WeeklyOutcome(u, raised) ==
    IF raised = "none" THEN WeeklyResp(u)
    ELSE mongodb_exception_handler("get_weekly_stats", u)

\* GET /dashboard with the store's behaviour as an input: the call that
\* raises, or "none"; reqs keeps the request as the server went through it
get_dashboard_outage(u, dateArg, raised) ==
    /\ resp' = DashboardOutcome(u, DateOrToday(dateArg), raised)
    /\ reqs' = [pc |-> "done", op |-> "get_dashboard", user |-> u,
                raised |-> raised]
    /\ UNCHANGED <<users, water_logs, food_logs, weight_logs, nextId, today>>

\* GET /stats/weekly with the store's behaviour as an input
get_weekly_stats_outage(u, raised) ==
    /\ resp' = WeeklyOutcome(u, raised)
    /\ reqs' = [pc |-> "done", op |-> "get_weekly_stats", user |-> u,
                raised |-> raised]
    /\ UNCHANGED <<users, water_logs, food_logs, weight_logs, nextId, today>>

PlainFoodEntries == {Food(200, "breakfast", None)}

NextOutage ==
    \/ \E u \in UserIds, entry \in PlainFoodEntries :
          create_food_log(u, entry)
    \/ \E u \in UserIds, dateArg \in DateArgs,
          raised \in DashboardCalls \cup {"none"} :
          get_dashboard_outage(u, dateArg, raised)
    \/ \E u \in UserIds, raised \in WeeklyCalls \cup {"none"} :
          get_weekly_stats_outage(u, raised)

SpecOutage == InitLogs /\ [][NextOutage]_vars

----------------------------------------------------------------------------
(* The log handlers and PUT /profile on the account of a user who has      *)
(* completed the profile                                                   *)

\* the PUT /profile of onboarding: the four biometrics in one request
Onboarding ==
    [EmptyUpdate EXCEPT !.age = Some(30), !.gender = Some("male"),
                        !.height_cm = Some(180),
                        !.current_weight = Some(60)]

\* the user document after register() and the onboarding update
OnboardedUser ==
    SetFields(RegisteredUser, UpdateData(RegisteredUser, Onboarding))

InitTargets ==
    /\ users = [u \in {HistoryUser} |-> OnboardedUser]
    /\ water_logs = <<>>
    /\ food_logs = <<>>
    /\ weight_logs = <<>>
    /\ nextId = 1
    /\ today = 1
    /\ resp = [op |-> "none", status |-> 0]
    /\ reqs = NoReqs

\* the amount of a glass of water
PlainAmounts == {500}
\* PUT /profile with a weight, or with an activity level
TargetUpdates ==
    OneField("current_weight", Weights)
    \cup OneField("activity_level", {"active"})

NextTargets ==
    \/ \E entry \in PlainFoodEntries : create_food_log(HistoryUser, entry)
    \/ \E log_id \in LogIds : delete_food_log(HistoryUser, log_id)
    \/ \E entry \in WeightEntries : create_weight_log(HistoryUser, entry)
    \/ \E log_id \in LogIds : delete_weight_log(HistoryUser, log_id)
    \/ \E a \in PlainAmounts : add_water(HistoryUser, None, a)
    \/ remove_last_water_entry(HistoryUser, None)
    \/ \E update \in TargetUpdates : update_profile(HistoryUser, update)

SpecTargets == InitTargets /\ [][NextTargets]_vars

----------------------------------------------------------------------------
(* POST /weight-logs as its two awaited writes, two requests in flight and *)
(* a store that may raise at either write                                  *)

InitWeightConc ==
    /\ users = [u \in UserIds |-> RegisteredUser]
    /\ water_logs = <<>>
    /\ food_logs = <<>>
    /\ weight_logs = <<>>
    /\ nextId = 1
    /\ today = 1
    /\ resp = [op |-> "none", status |-> 0]
    /\ reqs = [r \in ReqIds |-> Idle]

\* create_weight_log up to the return of insert_one (lines 348-361)
CreateWeightInsert(r, u, entry) ==
    LET log_doc == WeightLogDoc(u, nextId, Now, entry)
    IN  /\ reqs[r].pc = "idle"
        /\ nextId <= MaxLogs
        /\ weight_logs' = insert_one(weight_logs, log_doc)
        /\ nextId' = nextId + 1
        /\ reqs' = [reqs EXCEPT ![r] =
                       [pc |-> "inserted", op |-> "create_weight_log",
                        user |-> u, log |-> log_doc]]
        /\ UNCHANGED <<users, water_logs, food_logs, today, resp>>

\* insert_one raises: nothing is written and the request ends with the 503
CreateWeightInsertFails(r, u) ==
    /\ reqs[r].pc = "idle"
    /\ resp' = mongodb_exception_handler("create_weight_log", u)
    /\ reqs' = [reqs EXCEPT ![r] =
                   [pc |-> "failed", op |-> "create_weight_log",
                    user |-> u]]
    /\ UNCHANGED <<users, water_logs, food_logs, weight_logs, nextId, today>>

\* create_weight_log from the update_one to the return (lines 363-369)
CreateWeightSet(r) ==
    /\ reqs[r].pc = "inserted"
    /\ LET q == reqs[r]
       IN  /\ users' = [users EXCEPT
                           ![q.user].current_weight = Some(q.log.weight)]
           /\ resp' = [op |-> "create_weight_log", user |-> q.user,
                       status |-> 200, log |-> q.log]
           /\ reqs' = [reqs EXCEPT ![r] = [q EXCEPT !.pc = "done"]]
    /\ UNCHANGED <<water_logs, food_logs, weight_logs, nextId, today>>

\* faulty variant: the entry taken back when the second write fails
CreateWeightSetFails_RollsBack(r) ==
    /\ reqs[r].pc = "inserted"
    /\ LET q == reqs[r]
       IN  /\ resp' = mongodb_exception_handler("create_weight_log", q.user)
           /\ weight_logs' = delete_one(weight_logs, q.log.id, q.user)
           /\ reqs' = [reqs EXCEPT ![r] = [q EXCEPT !.pc = "failed"]]
    /\ UNCHANGED <<users, water_logs, food_logs, nextId, today>>

\* update_one raises: the exception leaves the handler after the insert and
\* the request ends with the 503
CreateWeightSetFails(r) ==
    /\ reqs[r].pc = "inserted"
    /\ LET q == reqs[r]
       IN  /\ resp' = mongodb_exception_handler("create_weight_log", q.user)
           /\ reqs' = [reqs EXCEPT ![r] = [q EXCEPT !.pc = "failed"]]
    /\ UNCHANGED <<users, water_logs, food_logs, weight_logs, nextId, today>>

NextWeightConc ==
    \/ \E r \in ReqIds, u \in UserIds, entry \in WeightEntries :
          CreateWeightInsert(r, u, entry)
    \/ \E r \in ReqIds, u \in UserIds : CreateWeightInsertFails(r, u)
    \/ \E r \in ReqIds : CreateWeightSet(r)
    \/ \E r \in ReqIds : CreateWeightSetFails(r)

SpecWeightConc == InitWeightConc /\ [][NextWeightConc]_vars

----------------------------------------------------------------------------
(* The log handlers and the reads of two users, one of whom has a food     *)
(* log, a weight log and a water record from earlier requests              *)

\* u1 has a food log, a weight log and a water record of day 1 from earlier
\* requests, with ids of their own
InitIsolation ==
    /\ users = [u \in UserIds |->
                   IF u = "u1" THEN OnboardedUser ELSE RegisteredUser]
    /\ water_logs = <<AddLogDoc("u1", 1, 0, 500)>>
    /\ food_logs =
           <<FoodLogDoc("u1", -1, <<1, -1>>, Food(200, "breakfast", None))>>
    /\ weight_logs =
           <<WeightLogDoc("u1", -2, <<1, -2>>,
                          [weight |-> 60, logged_at |-> None])>>
    /\ nextId = 1
    /\ today = 1
    /\ resp = [op |-> "none", status |-> 0]
    /\ reqs = NoReqs

\* the ids a delete is tried with: those of u1's earlier logs, and the first
\* id given out afterwards
IsolationLogIds == {-2, -1, 1}

\* u2 is the user who writes: every creation is u2's, and u2 tries its
\* deletes with the ids of u1's earlier logs too; u1 deletes its earlier
\* food log and takes back its earlier water entry; both read
NextIsolation ==
    \/ \E entry \in PlainFoodEntries : create_food_log("u2", entry)
    \/ \E log_id \in IsolationLogIds : delete_food_log("u2", log_id)
    \/ delete_food_log("u1", -1)
    \/ create_weight_log("u2", [weight |-> 80, logged_at |-> None])
    \/ \E log_id \in IsolationLogIds : delete_weight_log("u2", log_id)
    \/ \E a \in PlainAmounts : add_water("u2", None, a)
    \/ \E u \in UserIds : remove_last_water_entry(u, None)
    \/ \E u \in UserIds : get_food_logs(u, None)
    \/ \E u \in UserIds : get_water_log(u, None)
    \/ \E u \in UserIds : get_dashboard(u, None)
    \/ \E u \in UserIds : get_weekly_stats(u)

SpecIsolation == InitIsolation /\ [][NextIsolation]_vars

----------------------------------------------------------------------------
(* Food logs, weight logs and the aggregate reads: the properties *)

Range(docs) == {docs[i] : i \in 1..Len(docs)}
IdsOf(docs) == {docs[i].id : i \in 1..Len(docs)}

\* the documents stored for a user and a day, however many
StoredFor(coll, u, d) ==
    {doc \in Range(coll) : doc.user_id = u /\ doc.date = d}

\* the requests a food log of the model can have been created with
AllFoodEntries == FoodEntries \cup HistoryFoodEntries

\* a create_food_log step stores the exact products quantity x value
C13_StoresProducts ==
    resp'.op = "create_food_log"
    => \A entry \in AllFoodEntries :
           create_food_log(resp'.user, entry)
           => LET doc == food_logs'[Len(food_logs')]
              IN  /\ doc.id = resp'.log.id
                  /\ 100 * doc.calories = entry.quantity * entry.calories
                  /\ 100 * doc.protein = entry.quantity * entry.protein
                  /\ 100 * doc.carbs = entry.quantity * entry.carbs
                  /\ 100 * doc.fat = entry.quantity * entry.fat

\* a food log that stays in the store stays as it is
C13_StoredStaysAsIs ==
    LET before == Range(food_logs)
        ids == IdsOf(food_logs)
    IN  \A j \in 1..Len(food_logs') :
            food_logs'[j].id \in ids => food_logs'[j] \in before

\* a fetch that follows the owner's delete returns every log stored for the
\* day, and so not the deleted one
C13_FetchAfterDelete ==
    ( /\ resp.op = "delete_food_log"
      /\ resp.status = 200
      /\ resp'.op = "get_food_logs"
      /\ resp'.user = resp.user )
    => Range(resp'.logs) = StoredFor(food_logs', resp'.user, resp'.date)

\* C13, as stated: creating a food log stores each macro as quantity x
\* per-unit value and the stored values never change afterwards; after the
\* owner deletes that log, fetching the day's logs no longer returns it
\* while every other log of that day is still returned unchanged.
\* Violated: a fetch returns at most 100 logs of a day.
C13_ScaledStoredAndRoundTrip ==
    [][C13_StoresProducts /\ C13_StoredStaysAsIs /\ C13_FetchAfterDelete]_vars

\* C14: deleting a food log or weight log whose id does not exist, or which
\* belongs to a different user than the caller, fails with 404 and leaves
\* every stored log unchanged; a log is only ever removed by a delete
\* issued by its owner.
C14_DeleteOnlyByOwner ==
    [][/\ resp'.op = "delete_food_log"
          => \A log_id \in LogIds :
                 ( /\ delete_food_log(resp'.user, log_id)
                   /\ \A doc \in Range(food_logs) :
                          doc.id # log_id \/ doc.user_id # resp'.user )
                 => /\ resp'.status = 404
                    /\ food_logs' = food_logs
                    /\ weight_logs' = weight_logs
       /\ resp'.op = "delete_weight_log"
          => \A log_id \in LogIds :
                 ( /\ delete_weight_log(resp'.user, log_id)
                   /\ \A doc \in Range(weight_logs) :
                          doc.id # log_id \/ doc.user_id # resp'.user )
                 => /\ resp'.status = 404
                    /\ food_logs' = food_logs
                    /\ weight_logs' = weight_logs
       /\ \A doc \in Range(food_logs) \ Range(food_logs') :
              /\ resp'.op = "delete_food_log"
              /\ resp'.status = 200
              /\ resp'.user = doc.user_id
       /\ \A doc \in Range(weight_logs) \ Range(weight_logs') :
              /\ resp'.op = "delete_weight_log"
              /\ resp'.status = 200
              /\ resp'.user = doc.user_id
      ]_vars

\* a delete has failed for a caller while every id it can have named is
\* that of a food log of somebody else
C14_Witness ==
    /\ resp.op = "delete_food_log"
    /\ resp.status = 404
    /\ IdsOf(food_logs) = LogIds
    /\ \A doc \in Range(food_logs) : doc.user_id # resp.user

\* the days on which a user has at least one food log entry
DaysWithEntry(u) ==
    {food_logs[i].date :
        i \in {j \in 1..Len(food_logs) : food_logs[j].user_id = u}}

\* C15: the streak returned by the dashboard is the number of consecutive
\* days, counted backward from today, on which the user has at least one
\* food log entry, stopping at the first day with none and capped at 365:
\* 0 when today has no entry, 2 when only today and yesterday have entries;
\* it is anchored on today whatever date the dashboard is requested for.
C15_StreakFromToday ==
    [][(resp'.op = "get_dashboard" /\ today' = today)
       => LET days == DaysWithEntry(resp'.user)
              n == resp'.streak
          IN  /\ n \in 0..365
              /\ \A i \in 0..(n - 1) : today - i \in days
              /\ n < 365 => today - n \notin days
              /\ today \notin days => n = 0
              /\ ( /\ today \in days
                   /\ today - 1 \in days
                   /\ today - 2 \notin days ) => n = 2
      ]_vars

\* on day 2 the dashboard of day 1 has answered with a streak of 365 while
\* the user has an entry on day 2 and on each of the 365 days before it
C15_Witness ==
    /\ today = 2
    /\ resp.op = "get_dashboard"
    /\ resp.date = 1
    /\ resp.streak = 365
    /\ LET days == DaysWithEntry(resp.user)
       IN  \A i \in 0..365 : today - i \in days

FourMeals == {"breakfast", "lunch", "dinner", "snack"}

\* how often a document occurs in a sequence
Occurrences(docs, doc) == Cardinality({i \in 1..Len(docs) : docs[i] = doc})

\* C16: in the dashboard, every returned food entry whose meal_type is one
\* of breakfast/lunch/dinner/snack appears in exactly one meal bucket, the
\* one named by its meal_type; an entry with any other meal_type appears in
\* no bucket; the consumed totals are the sums over all returned entries
\* regardless of meal_type.
C16_BucketsAndTotals ==
    resp.op = "get_dashboard"
    => /\ \A doc \in Range(resp.food_logs), meal \in FourMeals :
              Occurrences(resp.meals[meal], doc)
                  = IF doc.meal_type = meal THEN 1 ELSE 0
       /\ \A meal \in FourMeals :
              Range(resp.meals[meal]) \subseteq Range(resp.food_logs)
       /\ resp.calories.consumed = SumField(resp.food_logs, "calories")
       /\ resp.protein.consumed = SumField(resp.food_logs, "protein")
       /\ resp.carbs.consumed = SumField(resp.food_logs, "carbs")
       /\ resp.fat.consumed = SumField(resp.food_logs, "fat")

\* a dashboard has answered with a breakfast entry and an entry of a meal
\* type that is none of the four
C16_Witness ==
    /\ resp.op = "get_dashboard"
    /\ Len(resp.food_logs) = 2
    /\ Len(resp.meals.breakfast) = 1
    /\ \E doc \in Range(resp.food_logs) : doc.meal_type \notin FourMeals
    /\ resp.calories.consumed
           = resp.food_logs[1].calories + resp.food_logs[2].calories

\* C17, as stated: the dashboard's consumed calories/protein/carbs/fat for a
\* day equal the sums over all food log entries stored for that (user,
\* day), however many entries the day has.  Violated: only the first 100
\* entries of the day are summed.
C17_TotalsOverAllStored ==
    resp.op = "get_dashboard"
    => LET stored == find(food_logs, resp.user, resp.date)
       IN  /\ resp.calories.consumed = SumField(stored, "calories")
           /\ resp.protein.consumed = SumField(stored, "protein")
           /\ resp.carbs.consumed = SumField(stored, "carbs")
           /\ resp.fat.consumed = SumField(stored, "fat")

\* C18, as stated: in weekly stats, days_on_track is the number of days
\* among the 7 calendar days ending today whose summed calories c satisfy
\* 0 < c <= calorie_target.  Violated: a day's sum is taken over at most
\* 100 of its entries.
C18_DaysOnTrack ==
    [][(resp'.op = "get_weekly_stats" /\ today' = today)
       => resp'.days_on_track
              = Cardinality(
                    {d \in (today - 6)..today :
                        LET c == SumField(find(food_logs, resp'.user, d),
                                          "calories")
                        IN  /\ c > 0
                            /\ c <= 10 * users[resp'.user].calorie_target[1]})
      ]_vars

\* the weight logs of a user
WeightsOf(u) == {doc \in Range(weight_logs) : doc.user_id = u}

\* the entries no more than 29 entries of the user come after in the
\* descending order, which puts an entry after those with a later
\* timestamp and, among entries of one timestamp, after the earlier stored
Recent(u) ==
    {i \in 1..Len(weight_logs) :
        /\ weight_logs[i].user_id = u
        /\ Cardinality(
               {j \in 1..Len(weight_logs) :
                   /\ weight_logs[j].user_id = u
                   /\ \/ Before(weight_logs[i].logged_at,
                                weight_logs[j].logged_at)
                      \/ /\ weight_logs[j].logged_at = weight_logs[i].logged_at
                         /\ j < i}) < 30}

C20_DashboardReadIsPure ==
    [][/\ ( /\ resp'.op = "get_dashboard"
            /\ get_dashboard(resp'.user, Some(resp'.date)) )
          => /\ users' = users
             /\ food_logs' = food_logs
             /\ weight_logs' = weight_logs
             /\ water_logs' = water_logs
       /\ ( /\ resp.op = "get_dashboard"
            /\ resp'.op = "get_dashboard"
            /\ resp'.user = resp.user
            /\ resp'.date = resp.date
            /\ today' = today ) => resp' = resp
      ]_vars

\* a dashboard has answered with two food entries and the water of the day
C20_Witness ==
    /\ resp.op = "get_dashboard"
    /\ Len(resp.food_logs) = 2
    /\ resp.water.consumed_ml = 500
    /\ resp.streak = 1

\* C21: a weight log creation leaves the user's current_weight equal to the
\* weight of its entry, whatever the entry's logged_at, and no other step of
\* the weight-log operations changes any user's current_weight; so after a
\* sequence of creations current_weight is the weight of the last call
C21_LastWriteWins ==
    [][/\ resp'.op = "create_weight_log"
            => users'[resp'.user].current_weight = Some(resp'.log.weight)
       /\ \A u \in UserIds :
            ~(resp'.op = "create_weight_log" /\ resp'.user = u)
                => users'[u].current_weight = users[u].current_weight]_vars

\* a creation with an old logged_at has just set current_weight to 80 while
\* the user's most recent entry by timestamp, created before it, weighs 60
C21_Witness ==
    /\ resp.op = "create_weight_log"
    /\ resp.log.weight = 80
    /\ users[resp.user].current_weight = Some(80)
    /\ LET logs == sort_descending(find_user(weight_logs, resp.user))
       IN  /\ Len(logs) >= 2
           /\ logs[1].weight = 60
           /\ logs[1].id < resp.log.id
           /\ Before(resp.log.logged_at, logs[1].logged_at)

\* the fields of a 503 answer: no field of a view among them
UnavailableFields == {"op", "user", "status", "detail"}

\* C22: an aggregate read during which a repository call raised answers 503
\* with the detail alone and no field of the view; one during which none
\* raised answers 200 with the whole view, the water of a day without a
\* water log being 0
C22_FailsWhole ==
    resp.op \in {"get_dashboard", "get_weekly_stats"} =>
        /\ reqs.op = resp.op /\ reqs.user = resp.user
        /\ reqs.raised # "none" =>
              /\ resp.status = 503
              /\ DOMAIN resp = UnavailableFields
        /\ reqs.raised = "none" =>
              /\ resp.status = 200
              /\ resp.op = "get_dashboard" =>
                    /\ resp = DashboardResp(resp.user, resp.date)
                    /\ find_one(water_logs, resp.user, resp.date) = None
                          => resp.water.consumed_ml = 0
              /\ resp.op = "get_weekly_stats" =>
                    /\ resp = WeeklyResp(resp.user)
                    /\ \A i \in 1..WeekLength :
                          find_one(water_logs, resp.user,
                                   resp.daily_stats[i].date) = None
                              => resp.daily_stats[i].water_ml = 0

\* the water lookup of a dashboard raised for a user who has food and water
\* stored for the day, and the answer is the 503
C22_Witness ==
    /\ resp.op = "get_dashboard"
    /\ reqs.raised = "water_logs.find_one"
    /\ resp.status = 503
    /\ find_one(water_logs, resp.user, today) # None
    /\ find(food_logs, resp.user, today) # <<>>

\* C23: under any interleaving of concurrent add_water and
\* remove_last_water_entry requests, every stored water record has total_ml
\* equal to the sum of its entries' amount_ml
C23_WrittenPairConsistent ==
    \A i \in 1..Len(water_logs) :
        water_logs[i].total_ml = SumAmounts(water_logs[i].entries)

\* the derived fields as PUT /profile would compute them from the profile
InSync(profile) ==
    \A f \in Derived : profile[f] = Recomputed(profile)[f]

\* C24: a step that is not a profile update (a creation or deletion of a
\* food or weight log, an add or undo of water) leaves every derived field
\* of every user as it was; so a weight log creation that changes
\* current_weight of a profile whose targets matched its weight leaves the
\* targets of the previous weight, which are not those of the new one
C24_TargetsOnlyByProfileUpdate ==
    [][resp'.op # "update_profile" =>
          \A u \in DOMAIN users :
              /\ \A f \in Derived : users'[u][f] = users[u][f]
              /\ ( /\ resp'.op = "create_weight_log"
                   /\ users'[u].current_weight # users[u].current_weight
                   /\ InSync(users[u]) )
                 => /\ \A f \in Derived :
                          users'[u][f] = Recomputed(users[u])[f]
                    /\ ~InSync(users'[u])]_vars

\* a weight log of 80 kg has just been created for a user whose stored
\* targets are those of 60 kg
C24_Witness ==
    /\ resp.op = "create_weight_log"
    /\ resp.log.weight = 80
    /\ users[resp.user].current_weight = Some(80)
    /\ \A f \in Derived :
          users[resp.user][f] =
              Recomputed([users[resp.user] EXCEPT
                             !.current_weight = Some(60)])[f]
    /\ ~InSync(users[resp.user])

\* C25: a weight log creation is two writes. The first appends the entry
\* and leaves the users as they are; the second sets current_weight of the
\* request's user to the entry's weight and leaves the weight logs as they
\* are; a store failure between the two leaves the entry stored,
\* current_weight and every collection as they were, and answers 503
C25_TwoSeparateWrites ==
    [][\A r \in ReqIds :
          /\ (reqs[r].pc = "idle" /\ reqs'[r].pc = "inserted") =>
                /\ weight_logs' = Append(weight_logs, reqs'[r].log)
                /\ users' = users
          /\ (reqs[r].pc = "inserted" /\ reqs'[r].pc = "done") =>
                /\ weight_logs' = weight_logs
                /\ users' = [users EXCEPT
                                ![reqs[r].user].current_weight =
                                    Some(reqs[r].log.weight)]
          /\ (reqs[r].pc = "inserted" /\ reqs'[r].pc = "failed") =>
                /\ resp'.status = 503
                /\ reqs[r].log \in Range(weight_logs')
                /\ users' = users
                /\ weight_logs' = weight_logs
                /\ food_logs' = food_logs
                /\ water_logs' = water_logs]_vars

\* two creations of one user have both completed, and current_weight is the
\* weight of the entry inserted first, not that of the entry inserted last
C25_Witness ==
    \E a, b \in ReqIds :
        /\ reqs[a].pc = "done" /\ reqs[b].pc = "done"
        /\ reqs[a].user = reqs[b].user
        /\ reqs[a].log.id < reqs[b].log.id
        /\ reqs[a].log.weight # reqs[b].log.weight
        /\ {reqs[a].log, reqs[b].log} \subseteq Range(weight_logs)
        /\ users[reqs[a].user].current_weight = Some(reqs[a].log.weight)

\* a creation has failed between its writes: its entry is stored and the
\* user's current_weight is still the one registration left
C25_FailedBetween ==
    \E r \in ReqIds :
        /\ reqs[r].pc = "failed"
        /\ "log" \in DOMAIN reqs[r]
        /\ reqs[r].log \in Range(weight_logs)
        /\ users[reqs[r].user].current_weight = None
        /\ resp.status = 503

\* what the reads of user u answer for day d in the current state
ReadsOf(u, d) ==
    [dashboard |-> DashboardResp(u, d),
     weekly |-> WeeklyResp(u),
     streak |-> calculate_streak(u),
     food_logs |-> DayLogs(u, d),
     water_log |-> GetWaterLogResp(find_one(water_logs, u, d), u, d)]

\* C26: a request of one user that writes to the store leaves the food
\* logs, weight logs, water records and profile of every other user as they
\* were, and leaves what the dashboard, the weekly stats, the streak and the
\* log reads answer to every other user as it was, whatever it did to the
\* requester's records (a request that writes nothing changes no answer)
C26_PerUserIsolation ==
    [][<<users, food_logs, weight_logs, water_logs>>'
           # <<users, food_logs, weight_logs, water_logs>> =>
       \A u \in UserIds :
          u # resp'.user =>
              /\ find_user(food_logs', u) = find_user(food_logs, u)
              /\ find_user(weight_logs', u) = find_user(weight_logs, u)
              /\ find_user(water_logs', u) = find_user(water_logs, u)
              /\ users'[u] = users[u]
              /\ ReadsOf(u, today)' = ReadsOf(u, today)]_vars

\* u2 has just deleted a food log of its own, having failed or not tried to
\* touch those of u1, which has food, weight and water stored for the day
C26_Witness ==
    /\ resp.op = "delete_food_log" /\ resp.user = "u2" /\ resp.status = 200
    /\ IdsOf(find_user(food_logs, "u1")) = {-1}
    /\ find_user(weight_logs, "u1") # <<>>
    /\ find_user(water_logs, "u1") # <<>>
    /\ DashboardResp("u1", today).calories.consumed > 0

====
